---- MODULE Spec2Model ----
(***************************************************************************)
(* A model of jsl's field tree (jsl/fields.py): role-conditional           *)
(* resolution, schema compilation (get_definitions_and_schema), child      *)
(* iteration (iter_fields) and the depth-first walk.                       *)
(*                                                                         *)
(* Fields are objects: the heap `fields` maps a field's identity to its    *)
(* attributes, `documents` maps a Document class to its definition id and  *)
(* the object field that backs it.  A Python value is a tagged record      *)
(* (t = "none", "bool", "str", "int", "list", "dict", "callable", "field",  *)
(* "doc" or "var"); a dict is the sequence of its items in iteration       *)
(* order.  A call that raises returns err # "" (the exception's name).     *)
(*                                                                         *)
(* jsl/roles.py, jsl/scope.py, jsl/registry.py and jsl/document.py are     *)
(* not part of the sources at hand; the definitions that stand for them    *)
(* are marked "modelled from the specification".                           *)
(***************************************************************************)
EXTENDS Integers, Sequences, FiniteSets, TLC

VARIABLES fields, documents, owner_cls, call, ret

vars == <<fields, documents, owner_cls, call, ret>>

(***************************************************************************)
(* Bounds                                                                  *)
(***************************************************************************)
\* Depth of nested calls after which Python raises RecursionError.
MaxDepth == 12
\* Longest Var (number of (predicate, value) entries) resolved in SpecVar.
MaxVarLen == 3
\* The most fields a client constructs.
MaxFields == 3

(***************************************************************************)
(* Python values                                                           *)
(***************************************************************************)
NoneV == [t |-> "none"]
Bool(b) == [t |-> "bool", b |-> b]
Str(s) == [t |-> "str", s |-> s]
IntV(n) == [t |-> "int", n |-> n]
List(l) == [t |-> "list", l |-> l]
Dict(items) == [t |-> "dict", items |-> items]
Item(k, v) == [k |-> k, v |-> v]
Callable(v) == [t |-> "callable", returns |-> v]
Fld(i) == [t |-> "field", id |-> i]
Doc(d) == [t |-> "doc", d |-> d]
\* A JSON object nested in a schema.
Obj(m) == [t |-> "obj", m |-> m]

EmptyMap == <<>>

\* Python's truth value of a value.
Truthy(v) ==
    CASE v.t = "none" -> FALSE
      [] v.t = "bool" -> v.b
      [] v.t = "str" -> v.s # ""
      [] v.t = "int" -> v.n # 0
      [] v.t = "list" -> Len(v.l) > 0
      [] v.t = "dict" -> Len(v.items) > 0
      [] OTHER -> TRUE

\* d[k] = v on a mapping.
MapSet(m, k, v) == (k :> v) @@ m

\* a.update(b) on a mapping: the keys of b overwrite those of a.
MapUpdate(a, b) == b @@ a

(***************************************************************************)
(* jsl/roles.py (modelled from the specification, 4.1, and test_var)       *)
(***************************************************************************)
DEFAULT_ROLE == "default"

Lit(r) == [k |-> "lit", r |-> r]
Not(r) == [k |-> "not", r |-> r]
Entry(p, v) == [p |-> p, v |-> v]
Var(values, pass) == [t |-> "var", values |-> values, roles_to_pass_down |-> pass]

\* A literal role name matches that role; Not(r) matches every other role.
Matches(p, role) == IF p.k = "lit" THEN p.r = role ELSE p.r # role

RECURSIVE Var_scan(_, _, _)
Var_scan(values, i, role) ==
    IF i > Len(values) THEN NoneV
    ELSE IF Matches(values[i].p, role) THEN values[i].v
    ELSE Var_scan(values, i + 1, role)

\* A plausible slip: the last matching entry wins.
RECURSIVE Var_scan_last(_, _, _)
Var_scan_last(values, i, role) ==
    IF i < 1 THEN NoneV
    ELSE IF Matches(values[i].p, role) THEN values[i].v
    ELSE Var_scan_last(values, i - 1, role)

Var_resolve_last(var, role) == Var_scan_last(var.values, Len(var.values), role)

Var_resolve(var, role) == Var_scan(var.values, 1, role)

\* The value and the role to use for what is nested in the value.
Var_resolve_2(var, role) ==
    <<Var_resolve(var, role),
      IF role \in var.roles_to_pass_down THEN role ELSE DEFAULT_ROLE>>

maybe_resolve(value, role) ==
    IF value.t = "var" THEN Var_resolve(value, role) ELSE value

maybe_resolve_2(value, role) ==
    IF value.t = "var" THEN Var_resolve_2(value, role) ELSE <<value, role>>

\* The values a Var can resolve to, whatever the role; a plain value itself.
maybe_resolve_all_roles(value) ==
    IF value.t = "var" THEN [i \in 1..Len(value.values) |-> value.values[i].v]
    ELSE <<value>>

(***************************************************************************)
(* jsl/scope.py (modelled from the specification, 4.2)                     *)
(***************************************************************************)
ResolutionScope == [base |-> ""]

\* The resolved id and the scope of what is nested.
Scope_alter(scope, id) ==
    IF id = "" THEN <<"", scope>>
    ELSE <<scope.base \o id, [base |-> scope.base \o id]>>

Scope_create_ref(scope, definition_id) ==
    "$ref" :> Str("#/definitions/" \o definition_id)

(***************************************************************************)
(* jsl/registry.py (modelled from the specification, 6: the name resolver) *)
(***************************************************************************)
NoDoc == "None"

\* registry.get_document(name, module): the Document registered under the
\* dotted name, looked up globally (module = "") or in a module's namespace.
Registry_get_document(name, module) ==
    LET full == IF module = "" THEN name ELSE module \o "." \o name
        found == {d \in DOMAIN documents :
                     documents[d].module \o "." \o documents[d].name = full}
    IN IF found = {} THEN [err |-> "KeyError", v |-> NoneV]
       ELSE [err |-> "", v |-> Doc(CHOOSE d \in found : TRUE)]

(***************************************************************************)
(* Fields: constructors (the attributes __init__ sets, with its defaults)  *)
(***************************************************************************)
RECURSIVE_REFERENCE_CONSTANT == "self"

BaseSchemaField(cls) ==
    [cls |-> cls, required |-> Bool(FALSE), id |-> "",
     title |-> NoneV, description |-> NoneV, enum |-> NoneV, default |-> NoneV,
     properties |-> NoneV, pattern_properties |-> NoneV,
     additional_properties |-> NoneV,
     fields |-> NoneV, field |-> NoneV,
     document_cls |-> NoneV, as_ref |-> FALSE,
     pattern |-> NoneV, items |-> NoneV, additional_items |-> NoneV]

StringField == BaseSchemaField("StringField")
NumberField == BaseSchemaField("NumberField")
IntField == BaseSchemaField("IntField")
BooleanField == BaseSchemaField("BooleanField")

DictField(properties, pattern_properties) ==
    [BaseSchemaField("DictField") EXCEPT !.properties = properties,
                                         !.pattern_properties = pattern_properties]

BaseOfField(cls, fs) == [BaseSchemaField(cls) EXCEPT !.fields = fs]

ArrayField(items, additional_items) ==
    [BaseSchemaField("ArrayField") EXCEPT !.items = items,
                                          !.additional_items = additional_items]

NotField(field) == [BaseSchemaField("NotField") EXCEPT !.field = field]

DocumentField(document_cls, as_ref) ==
    [BaseSchemaField("DocumentField") EXCEPT !.document_cls = document_cls,
                                             !.as_ref = as_ref]

Required(field, required) == [field EXCEPT !.required = required]

IsSchemaLeaf(cls) == cls \in {"StringField", "NumberField", "IntField", "BooleanField"}
IsOfField(cls) == cls \in {"OneOfField", "AnyOfField", "AllOfField"}

\* The JSON type a leaf field emits.
LeafType(cls) ==
    CASE cls = "StringField" -> "string"
      [] cls = "NumberField" -> "number"
      [] cls = "IntField" -> "integer"
      [] OTHER -> "boolean"

\* BaseOfField._KEYWORD
Keyword(cls) ==
    CASE cls = "OneOfField" -> "oneOf"
      [] cls = "AnyOfField" -> "anyOf"
      [] OTHER -> "allOf"

(***************************************************************************)
(* Results of calls                                                        *)
(***************************************************************************)
\* (definitions, schema), or the exception raised.
Ok2(defs, schema) == [err |-> "", defs |-> defs, schema |-> schema]
Raise2(e) == [err |-> e, defs |-> EmptyMap, schema |-> EmptyMap]

\* A returned value, or the exception raised.
OkV(v) == [err |-> "", v |-> v]
RaiseV(e) == [err |-> e, v |-> NoneV]

\* What a generator yielded, and the exception that ended it (if any).
Yielded(out, e) == [err |-> e, out |-> out]

\* Regular expressions re.compile rejects.
InvalidRegex == {"("}

_validate_regex(regex) == IF regex \in InvalidRegex THEN "ValueError" ELSE ""

RECURSIVE validate_keys(_, _)
validate_keys(items, i) ==
    IF i > Len(items) THEN ""
    ELSE IF _validate_regex(items[i].k) # "" THEN _validate_regex(items[i].k)
    ELSE validate_keys(items, i + 1)

(***************************************************************************)
(* Construction: what __init__ returns, or the exception it raises         *)
(***************************************************************************)
RECURSIVE validate_all(_, _)
\* `for value in ...: _validate_regex(value)`
validate_all(values, i) ==
    IF i > Len(values) THEN ""
    ELSE IF _validate_regex(values[i].s) # "" THEN _validate_regex(values[i].s)
    ELSE validate_all(values, i + 1)

\* A plausible slip: only what the pattern is under the default role is validated.
StringField___init___default_role(pattern) ==
    IF maybe_resolve(pattern, DEFAULT_ROLE).t # "none"
          /\ _validate_regex(maybe_resolve(pattern, DEFAULT_ROLE).s) # ""
    THEN RaiseV("ValueError")
    ELSE OkV([StringField EXCEPT !.pattern = pattern])

StringField___init__(pattern) ==
    IF pattern.t # "none" /\ validate_all(maybe_resolve_all_roles(pattern), 1) # ""
    THEN RaiseV(validate_all(maybe_resolve_all_roles(pattern), 1))
    ELSE OkV([StringField EXCEPT !.pattern = pattern])

DictField___init__(properties, pattern_properties) ==
    OkV(DictField(properties, pattern_properties))

(***************************************************************************)
(* BaseSchemaField                                                         *)
(***************************************************************************)
CallIfCallable(v) == IF v.t = "callable" THEN v.returns ELSE v

get_enum(f, role) == CallIfCallable(maybe_resolve(fields[f].enum, role))

get_default(f, role) == CallIfCallable(maybe_resolve(fields[f].default, role))

SetIf(cond, m, k, v) == IF cond THEN MapSet(m, k, v) ELSE m
\* `if v is not None: m[k] = v` and `if v: m[k] = v`
SetPresent(m, k, v) == SetIf(v.t # "none", m, k, v)
SetTruthy(m, k, v) == SetIf(Truthy(v), m, k, v)

_update_schema_with_common_fields(schema, f, id, role) ==
    SetPresent(
        SetTruthy(
            SetPresent(
                SetPresent(SetIf(id # "", schema, "id", Str(id)),
                           "title", maybe_resolve(fields[f].title, role)),
                "description", maybe_resolve(fields[f].description, role)),
            "enum", get_enum(f, role)),
        "default", get_default(f, role))

\* BooleanField, StringField, NumberField, IntField: the type and the common
\* attributes (the validators that only copy a resolved attribute, such as
\* minLength or maximum, are not modelled).
Leaf_get_definitions_and_schema(f, role, scope) ==
    Ok2(EmptyMap,
        SetTruthy(
            _update_schema_with_common_fields("type" :> Str(LeafType(fields[f].cls)), f,
                                              Scope_alter(scope, fields[f].id)[1], role),
            "pattern", maybe_resolve(fields[f].pattern, role)))

(***************************************************************************)
(* DocumentField.get_document_cls                                          *)
(***************************************************************************)
\* The owner's namespace as the fallback of a failed lookup.
LookupWithFallback(f, name, g) ==
    IF g.err = "" THEN g
    ELSE IF owner_cls[f] = NoDoc THEN RaiseV("ValueError")
    ELSE Registry_get_document(name, documents[owner_cls[f]].module)

\* A plausible slip: without an owner the sentinel resolves to nothing.
ResolveDocumentCls_absent(f, document_cls) ==
    IF document_cls.t = "str"
    THEN IF document_cls.s = RECURSIVE_REFERENCE_CONSTANT
         THEN IF owner_cls[f] = NoDoc
              THEN OkV(NoneV)
              ELSE OkV(Doc(owner_cls[f]))
         ELSE LookupWithFallback(f, document_cls.s,
                                 Registry_get_document(document_cls.s, ""))
    ELSE OkV(document_cls)

ResolveDocumentCls(f, document_cls) ==
    IF document_cls.t = "str"
    THEN IF document_cls.s = RECURSIVE_REFERENCE_CONSTANT
         THEN IF owner_cls[f] = NoDoc
              THEN RaiseV("ValueError")
              ELSE OkV(Doc(owner_cls[f]))
         ELSE LookupWithFallback(f, document_cls.s,
                                 Registry_get_document(document_cls.s, ""))
    ELSE OkV(document_cls)

DocumentField_get_document_cls(f, role) ==
    ResolveDocumentCls(f, maybe_resolve(fields[f].document_cls, role))

\* Document.get_definition_id (modelled from the specification, 3).
Document_get_definition_id(d) == documents[d].definition_id

(***************************************************************************)
(* iter_fields                                                             *)
(***************************************************************************)
KeepOrDrop(v, keep_none) == IF v.t = "none" /\ ~keep_none THEN <<>> ELSE <<v>>

RECURSIVE resolve_each(_, _, _, _)
\* The items of a list, each resolved under the role; None is kept or dropped.
resolve_each(values, i, role, keep_none) ==
    IF i > Len(values) THEN <<>>
    ELSE KeepOrDrop(maybe_resolve(values[i], role), keep_none)
         \o resolve_each(values, i + 1, role, keep_none)

ItemValues(items) == [i \in 1..Len(items) |-> items[i].v]

\* The present fields of a resolved properties mapping.
PresentFields(p) ==
    IF p[1].t = "none" THEN <<>>
    ELSE resolve_each(ItemValues(p[1].items), 1, p[2], FALSE)

IfField(v) == IF v.t = "field" THEN <<v>> ELSE <<>>

DictField_iter_fields(f, role) ==
    Yielded(PresentFields(maybe_resolve_2(fields[f].properties, role))
            \o PresentFields(maybe_resolve_2(fields[f].pattern_properties, role))
            \o IfField(maybe_resolve(fields[f].additional_properties, role)),
            "")

EachOfFields(fs) ==
    IF fs[1].t = "none"
    THEN Yielded(<<>>, "TypeError")
    ELSE Yielded(resolve_each(fs[1].l, 1, fs[2], TRUE), "")

BaseOfField_iter_fields(f, role) == EachOfFields(maybe_resolve_2(fields[f].fields, role))

\* Document.iter_fields (modelled from test_document_field: the fields of the
\* document that are present under the role).
Document_iter_fields(d, role) == DictField_iter_fields(documents[d].field, role)

TargetIterFields(g, role) ==
    IF g.err # "" THEN Yielded(<<>>, g.err)
    ELSE IF g.v.t # "doc" THEN Yielded(<<>>, "AttributeError")
    ELSE Document_iter_fields(g.v.d, role)

DocumentField_iter_fields(f, role) ==
    TargetIterFields(DocumentField_get_document_cls(f, role), role)

\* The items (None among them, when an element of a list is absent), then
\* additional_items when it is a field.
ArrayItemFields(items) ==
    IF items[1].t = "none" THEN <<>>
    ELSE IF items[1].t = "list" THEN resolve_each(items[1].l, 1, items[2], TRUE)
    ELSE <<items[1]>>

ArrayField_iter_fields(f, role) ==
    Yielded(ArrayItemFields(maybe_resolve_2(fields[f].items, role))
            \o IfField(maybe_resolve(fields[f].additional_items, role)),
            "")

iter_fields(f, role) ==
    CASE fields[f].cls = "DictField" -> DictField_iter_fields(f, role)
      [] fields[f].cls = "ArrayField" -> ArrayField_iter_fields(f, role)
      [] IsOfField(fields[f].cls) -> BaseOfField_iter_fields(f, role)
      [] fields[f].cls = "DocumentField" -> DocumentField_iter_fields(f, role)
      [] OTHER -> Yielded(<<>>, "")

(***************************************************************************)
(* walk.  A yielded entry is the field and, for the record, the Documents  *)
(* that DocumentFields were expanded into on the way to it.                *)
(***************************************************************************)
Yield(f, path) == [f |-> f, path |-> path]

RECURSIVE walk(_, _, _, _, _, _)
RECURSIVE walk_children(_, _, _, _, _, _, _)

\* What one generator yields followed by what the next one yields.
YieldFrom(w, rest) ==
    IF w.err # "" THEN w ELSE Yielded(w.out \o rest.out, rest.err)

WalkResolved(r, through_document_fields, visited_documents, path, depth) ==
    IF r[1].t = "none" THEN Yielded(<<>>, "")
    ELSE walk(r[1].id, r[2], through_document_fields, visited_documents, path, depth)

walk_children(children, i, role, through_document_fields, visited_documents, path, depth) ==
    IF i > Len(children) THEN Yielded(<<>>, "")
    ELSE YieldFrom(
            WalkResolved(maybe_resolve_2(children[i], role), through_document_fields,
                         visited_documents, path, depth + 1),
            walk_children(children, i + 1, role, through_document_fields,
                          visited_documents, path, depth))

\* The children are walked, then the exception of iter_fields (if any) ends it.
WalkIterated(it, role, through_document_fields, visited_documents, path, depth) ==
    YieldFrom(walk_children(it.out, 1, role, through_document_fields,
                            visited_documents, path, depth),
              Yielded(<<>>, it.err))

BaseField_walk(f, role, through_document_fields, visited_documents, path, depth) ==
    YieldFrom(Yielded(<<Yield(f, path)>>, ""),
              WalkIterated(iter_fields(f, role), role, through_document_fields,
                           visited_documents, path, depth))

\* `if field != self: yield field`
ExceptSelf(f, w) == Yielded(SelectSeq(w.out, LAMBDA e : e.f # f), w.err)

\* A plausible slip: the target is expanded whether or not it was visited.
WalkTarget_unguarded(f, g, role, through_document_fields, visited_documents, path, depth) ==
    IF g.err # "" THEN Yielded(<<>>, g.err)
    ELSE ExceptSelf(f, BaseField_walk(f, role, through_document_fields,
                                      visited_documents \cup {g.v},
                                      Append(path, g.v), depth + 1))

WalkTarget(f, g, role, through_document_fields, visited_documents, path, depth) ==
    IF g.err # "" THEN Yielded(<<>>, g.err)
    ELSE IF g.v \in visited_documents THEN Yielded(<<>>, "")
    ELSE ExceptSelf(f, BaseField_walk(f, role, through_document_fields,
                                      visited_documents \cup {g.v},
                                      Append(path, g.v), depth + 1))

\* A plausible slip: the target is expanded whatever through_document_fields is.
DocumentField_walk_always(f, role, through_document_fields, visited_documents, path, depth) ==
    YieldFrom(Yielded(<<Yield(f, path)>>, ""),
              WalkTarget(f, DocumentField_get_document_cls(f, role), role, TRUE,
                         visited_documents, path, depth))

DocumentField_walk(f, role, through_document_fields, visited_documents, path, depth) ==
    YieldFrom(Yielded(<<Yield(f, path)>>, ""),
              IF through_document_fields
              THEN WalkTarget(f, DocumentField_get_document_cls(f, role), role,
                              through_document_fields, visited_documents, path, depth)
              ELSE Yielded(<<>>, ""))

walk(f, role, through_document_fields, visited_documents, path, depth) ==
    IF depth > MaxDepth THEN Yielded(<<>>, "RecursionError")
    ELSE IF fields[f].cls = "DocumentField"
    THEN DocumentField_walk(f, role, through_document_fields, visited_documents,
                            path, depth)
    ELSE BaseField_walk(f, role, through_document_fields, visited_documents,
                        path, depth)

(***************************************************************************)
(* Document.is_recursive (modelled from the specification, 4.4 and 8: the  *)
(* emission is cycle-safe; a Document that some DocumentField reached from *)
(* its own fields points back to is compiled as a reference to itself).    *)
(***************************************************************************)
PointsBackOr(g, d, rest) ==
    IF g.err # "" THEN RaiseV(g.err)
    ELSE IF g.v = Doc(d) THEN OkV(Bool(TRUE))
    ELSE rest

RECURSIVE points_back(_, _, _, _)
\* Whether one of the yielded fields is a DocumentField whose target is d.
points_back(out, i, d, role) ==
    IF i > Len(out) THEN OkV(Bool(FALSE))
    ELSE IF fields[out[i].f].cls # "DocumentField" THEN points_back(out, i + 1, d, role)
    ELSE PointsBackOr(DocumentField_get_document_cls(out[i].f, role), d,
                      points_back(out, i + 1, d, role))

RecursiveOr(r, err) ==
    IF r.err # "" THEN r
    ELSE IF r.v.b THEN r
    ELSE IF err # "" THEN RaiseV(err)
    ELSE r

PointsBackIn(w, d, role) == RecursiveOr(points_back(w.out, 1, d, role), w.err)

Document_is_recursive(d, role, depth) ==
    PointsBackIn(walk_children(Document_iter_fields(d, role).out, 1, role, TRUE,
                               {Doc(d)}, <<Doc(d)>>, depth),
                 d, role)

(***************************************************************************)
(* get_definitions_and_schema.  ref_documents is a set of Documents (the   *)
(* empty set stands for None as well); the cosmetic `ordered` is left out. *)
(***************************************************************************)
RECURSIVE get_definitions_and_schema(_, _, _, _, _)
RECURSIVE process_properties_from(_, _, _, _, _, _, _)
RECURSIVE of_fields_from(_, _, _, _, _, _, _)
RECURSIVE items_from(_, _, _, _, _, _, _)
RECURSIVE Document_get_definitions_and_schema(_, _, _, _, _)

\* --- DictField -----------------------------------------------------------
Properties(err, defs, required, schema) ==
    [err |-> err, defs |-> defs, required |-> required, schema |-> schema]

NoProperties == Properties("", EmptyMap, <<>>, EmptyMap)

AppendIf(cond, s, e) == IF cond THEN Append(s, e) ELSE s

\* A plausible slip: every present property is listed as required.
AddProperty_all_required(acc, prop, field, field_role, c) ==
    IF c.err # "" THEN Properties(c.err, EmptyMap, <<>>, EmptyMap)
    ELSE Properties("", MapUpdate(acc.defs, c.defs),
                    Append(acc.required, Str(prop)),
                    MapSet(acc.schema, prop, Obj(c.schema)))

AddProperty(acc, prop, field, field_role, c) ==
    IF c.err # "" THEN Properties(c.err, EmptyMap, <<>>, EmptyMap)
    ELSE Properties("", MapUpdate(acc.defs, c.defs),
                    AppendIf(Truthy(maybe_resolve(fields[field].required, field_role)),
                             acc.required, Str(prop)),
                    MapSet(acc.schema, prop, Obj(c.schema)))

ProcessProperty(acc, prop, r, scope, ref_documents, depth) ==
    IF r[1].t = "none" THEN acc
    ELSE AddProperty(acc, prop, r[1].id, r[2],
                     get_definitions_and_schema(r[1].id, r[2], scope, ref_documents,
                                                depth + 1))

process_properties_from(items, i, acc, scope, ref_documents, role, depth) ==
    IF i > Len(items) \/ acc.err # "" THEN acc
    ELSE process_properties_from(
            items, i + 1,
            ProcessProperty(acc, items[i].k, maybe_resolve_2(items[i].v, role),
                            scope, ref_documents, depth),
            scope, ref_documents, role, depth)

DictField__process_properties(properties, scope, ref_documents, role, depth) ==
    process_properties_from(properties.items, 1, NoProperties, scope, ref_documents,
                            role, depth)

\* The resolved attribute, and what processing it gave when it is present.
Processed(p, r) == [present |-> p[1].t # "none", r |-> r]

ProcessedProperties(p, scope, ref_documents, depth) ==
    Processed(p, IF p[1].t = "none" THEN NoProperties
                 ELSE DictField__process_properties(p[1], scope, ref_documents, p[2],
                                                    depth))

RaiseOr(err, r) == IF err # "" THEN Properties(err, EmptyMap, <<>>, EmptyMap) ELSE r

ProcessedPatternProperties(pp, scope, ref_documents, depth) ==
    Processed(pp, IF pp[1].t = "none" THEN NoProperties
                  ELSE RaiseOr(validate_keys(pp[1].items, 1),
                               DictField__process_properties(pp[1], scope,
                                                             ref_documents, pp[2],
                                                             depth)))

Additional(ap, c) == [value |-> ap[1], c |-> c]

CompiledAdditional(ap, scope, ref_documents, depth) ==
    Additional(ap, IF ap[1].t = "field"
                   THEN get_definitions_and_schema(ap[1].id, ap[2], scope,
                                                   ref_documents, depth + 1)
                   ELSE Ok2(EmptyMap, EmptyMap))

\* A plausible slip: an empty mapping is taken for an absent one.
WithProperties_truthy(schema, pr) ==
    IF ~pr.present \/ pr.r.schema = EmptyMap THEN schema
    ELSE SetIf(Len(pr.r.required) > 0,
               MapSet(schema, "properties", Obj(pr.r.schema)),
               "required", List(pr.r.required))

WithProperties(schema, pr) ==
    IF ~pr.present THEN schema
    ELSE SetIf(Len(pr.r.required) > 0,
               MapSet(schema, "properties", Obj(pr.r.schema)),
               "required", List(pr.r.required))

WithPatternProperties(schema, ppr) ==
    SetIf(ppr.present, schema, "patternProperties", Obj(ppr.r.schema))

WithAdditional(schema, apr) ==
    IF apr.value.t = "none" THEN schema
    ELSE IF apr.value.t = "bool" THEN MapSet(schema, "additionalProperties", apr.value)
    ELSE MapSet(schema, "additionalProperties", Obj(apr.c.schema))

DictSchema(schema, pr, ppr, apr) ==
    IF pr.r.err # "" THEN Raise2(pr.r.err)
    ELSE IF ppr.r.err # "" THEN Raise2(ppr.r.err)
    ELSE IF apr.c.err # "" THEN Raise2(apr.c.err)
    ELSE Ok2(MapUpdate(MapUpdate(pr.r.defs, ppr.r.defs), apr.c.defs),
             WithAdditional(WithPatternProperties(WithProperties(schema, pr), ppr), apr))

DictField_get_definitions_and_schema(f, role, scope, ref_documents, depth) ==
    DictSchema(
        _update_schema_with_common_fields("type" :> Str("object"), f,
                                          Scope_alter(scope, fields[f].id)[1], role),
        ProcessedProperties(maybe_resolve_2(fields[f].properties, role),
                            Scope_alter(scope, fields[f].id)[2], ref_documents, depth),
        ProcessedPatternProperties(maybe_resolve_2(fields[f].pattern_properties, role),
                                   Scope_alter(scope, fields[f].id)[2], ref_documents,
                                   depth),
        CompiledAdditional(maybe_resolve_2(fields[f].additional_properties, role),
                           Scope_alter(scope, fields[f].id)[2], ref_documents, depth))

\* --- ArrayField -----------------------------------------------------------
\* Whether items resolved to something, and then its definitions and schema.
ArrayItems(present, err, defs, nested) ==
    [present |-> present, err |-> err, defs |-> defs, nested |-> nested]

NoItems == ArrayItems(FALSE, "", EmptyMap, List(<<>>))

AddItem(acc, c) ==
    IF c.err # "" THEN ArrayItems(TRUE, c.err, EmptyMap, List(<<>>))
    ELSE ArrayItems(TRUE, "", MapUpdate(acc.defs, c.defs),
                    List(Append(acc.nested.l, Obj(c.schema))))

\* `item.get_definitions_and_schema(...)`, which None does not have.
ProcessItem(acc, r, scope, ref_documents, depth) ==
    IF r[1].t # "field" THEN ArrayItems(TRUE, "AttributeError", EmptyMap, List(<<>>))
    ELSE AddItem(acc, get_definitions_and_schema(r[1].id, r[2], scope, ref_documents,
                                                 depth + 1))

items_from(items, i, acc, scope, ref_documents, role, depth) ==
    IF i > Len(items) \/ acc.err # "" THEN acc
    ELSE items_from(items, i + 1,
                    ProcessItem(acc, maybe_resolve_2(items[i], role), scope,
                                ref_documents, depth),
                    scope, ref_documents, role, depth)

\* `for item in self.items`: the attribute itself is iterated, not what it
\* resolved to, and a Var is not iterable.
TupleItems(self_items, scope, ref_documents, role, depth) ==
    IF self_items.t = "var" THEN ArrayItems(TRUE, "TypeError", EmptyMap, List(<<>>))
    ELSE items_from(self_items.l, 1, ArrayItems(TRUE, "", EmptyMap, List(<<>>)), scope,
                    ref_documents, role, depth)

SingleItem(c) == ArrayItems(TRUE, c.err, c.defs, Obj(c.schema))

CompiledItems(self_items, items, scope, ref_documents, role, depth) ==
    IF items[1].t = "none" THEN NoItems
    ELSE IF items[1].t = "list"
    THEN TupleItems(self_items, scope, ref_documents, role, depth)
    ELSE SingleItem(get_definitions_and_schema(items[1].id, items[2], scope,
                                               ref_documents, depth + 1))

WithItems(f, id, role, it) ==
    IF ~it.present THEN "type" :> Str("array")
    ELSE MapSet(_update_schema_with_common_fields("type" :> Str("array"), f, id, role),
                "items", it.nested)

WithAdditionalItems(schema, ai) ==
    IF ai.value.t = "none" THEN schema
    ELSE IF ai.value.t = "bool" THEN MapSet(schema, "additionalItems", ai.value)
    ELSE MapSet(schema, "additionalItems", Obj(ai.c.schema))

ArraySchema(f, id, role, it, ai) ==
    IF it.err # "" THEN Raise2(it.err)
    ELSE IF ai.c.err # "" THEN Raise2(ai.c.err)
    ELSE Ok2(MapUpdate(it.defs, ai.c.defs),
             WithAdditionalItems(WithItems(f, id, role, it), ai))

ArrayField_get_definitions_and_schema(f, role, scope, ref_documents, depth) ==
    ArraySchema(f, Scope_alter(scope, fields[f].id)[1], role,
                CompiledItems(fields[f].items, maybe_resolve_2(fields[f].items, role),
                              Scope_alter(scope, fields[f].id)[2], ref_documents, role,
                              depth),
                CompiledAdditional(maybe_resolve_2(fields[f].additional_items, role),
                                   Scope_alter(scope, fields[f].id)[2], ref_documents,
                                   depth))

\* --- OneOfField, AnyOfField, AllOfField ----------------------------------
OfFields(err, defs, one_of) == [err |-> err, defs |-> defs, one_of |-> one_of]

AddOfField(acc, c) ==
    IF c.err # "" THEN OfFields(c.err, EmptyMap, <<>>)
    ELSE OfFields("", MapUpdate(acc.defs, c.defs), Append(acc.one_of, Obj(c.schema)))

\* A plausible slip: an absent child is listed as the empty schema.
ProcessOfField_absent_as_empty(acc, r, scope, ref_documents, depth) ==
    IF r[1].t = "none" THEN AddOfField(acc, Ok2(EmptyMap, EmptyMap))
    ELSE AddOfField(acc, get_definitions_and_schema(r[1].id, r[2], scope,
                                                    ref_documents, depth + 1))

ProcessOfField(acc, r, scope, ref_documents, depth) ==
    IF r[1].t = "none" THEN acc
    ELSE AddOfField(acc, get_definitions_and_schema(r[1].id, r[2], scope,
                                                    ref_documents, depth + 1))

of_fields_from(fs, i, acc, scope, ref_documents, fields_role, depth) ==
    IF i > Len(fs) \/ acc.err # "" THEN acc
    ELSE of_fields_from(fs, i + 1,
                        ProcessOfField(acc, maybe_resolve_2(fs[i], fields_role), scope,
                                       ref_documents, depth),
                        scope, ref_documents, fields_role, depth)

\* A plausible slip: the children are resolved under the queried role.
CompiledOfFields_queried_role(fs, role, scope, ref_documents, depth) ==
    IF fs[1].t = "none" THEN OfFields("", EmptyMap, <<>>)
    ELSE of_fields_from(fs[1].l, 1, OfFields("", EmptyMap, <<>>), scope, ref_documents,
                        role, depth)

CompiledOfFields(fs, role, scope, ref_documents, depth) ==
    IF fs[1].t = "none" THEN OfFields("", EmptyMap, <<>>)
    ELSE of_fields_from(fs[1].l, 1, OfFields("", EmptyMap, <<>>), scope, ref_documents,
                        fs[2], depth)

OfSchema(f, id, r) ==
    IF r.err # "" THEN Raise2(r.err)
    ELSE Ok2(r.defs,
             _update_schema_with_common_fields(Keyword(fields[f].cls) :> List(r.one_of),
                                               f, id, DEFAULT_ROLE))

BaseOfField_get_definitions_and_schema(f, role, scope, ref_documents, depth) ==
    OfSchema(f, Scope_alter(scope, fields[f].id)[1],
             CompiledOfFields(maybe_resolve_2(fields[f].fields, role), role,
                              Scope_alter(scope, fields[f].id)[2], ref_documents, depth))

\* --- NotField ------------------------------------------------------------
CompiledNegated(r, scope, ref_documents, depth) ==
    IF r[1].t = "none" THEN Ok2(EmptyMap, EmptyMap)
    ELSE get_definitions_and_schema(r[1].id, r[2], scope, ref_documents, depth + 1)

NotSchema(f, role, id, c) ==
    IF c.err # "" THEN c
    ELSE Ok2(c.defs,
             _update_schema_with_common_fields("not" :> Obj(c.schema), f, id, role))

NotField_get_definitions_and_schema(f, role, scope, ref_documents, depth) ==
    NotSchema(f, role, Scope_alter(scope, fields[f].id)[1],
              CompiledNegated(maybe_resolve_2(fields[f].field, role),
                              Scope_alter(scope, fields[f].id)[2], ref_documents, depth))

\* --- DocumentField -------------------------------------------------------
\* A plausible slip: with as_ref the schema is not put into the definitions.
InlineOrRef_unrecorded(f, scope, definition_id, c) ==
    IF c.err # "" THEN c
    ELSE IF fields[f].as_ref
    THEN Ok2(c.defs, Scope_create_ref(scope, definition_id))
    ELSE c

\* The document's schema inline, or in the definitions behind a reference.
InlineOrRef(f, scope, definition_id, c) ==
    IF c.err # "" THEN c
    ELSE IF fields[f].as_ref
    THEN Ok2(MapSet(c.defs, definition_id, Obj(c.schema)),
             Scope_create_ref(scope, definition_id))
    ELSE c

\* A plausible slip: ref_documents is not consulted.
CompiledTarget_inlined(f, g, role, scope, ref_documents, depth) ==
    IF g.err # "" THEN Raise2(g.err)
    ELSE IF g.v.t # "doc" THEN Raise2("AttributeError")
    ELSE InlineOrRef(f, scope, Document_get_definition_id(g.v.d),
                     Document_get_definitions_and_schema(g.v.d, role, scope,
                                                         ref_documents, depth + 1))

CompiledTarget(f, g, role, scope, ref_documents, depth) ==
    IF g.err # "" THEN Raise2(g.err)
    ELSE IF g.v.t # "doc" THEN Raise2("AttributeError")
    ELSE IF ref_documents # {} /\ g.v.d \in ref_documents
    THEN Ok2(EmptyMap, Scope_create_ref(scope, Document_get_definition_id(g.v.d)))
    ELSE InlineOrRef(f, scope, Document_get_definition_id(g.v.d),
                     Document_get_definitions_and_schema(g.v.d, role, scope,
                                                         ref_documents, depth + 1))

DocumentField_get_definitions_and_schema(f, role, scope, ref_documents, depth) ==
    CompiledTarget(f, DocumentField_get_document_cls(f, role), role, scope,
                   ref_documents, depth)

\* --- Document ------------------------------------------------------------
Hoisted(recursive, scope, definition_id, c) ==
    IF c.err # "" THEN c
    ELSE IF recursive
    THEN Ok2(MapSet(c.defs, definition_id, Obj(c.schema)),
             Scope_create_ref(scope, definition_id))
    ELSE c

CompiledDocument(d, role, scope, ref_documents, depth, rec) ==
    IF rec.err # "" THEN Raise2(rec.err)
    ELSE Hoisted(rec.v.b, scope, Document_get_definition_id(d),
                 DictField_get_definitions_and_schema(
                     documents[d].field, role, scope,
                     IF rec.v.b THEN ref_documents \cup {d} ELSE ref_documents,
                     depth + 1))

\* Document.get_definitions_and_schema (modelled from the specification, 4.4
\* and 8): the schema of the object field that backs the document; a
\* recursive document joins ref_documents while its fields are compiled, and
\* its schema goes to the definitions under its definition id.
Document_get_definitions_and_schema(d, role, scope, ref_documents, depth) ==
    IF depth > MaxDepth THEN Raise2("RecursionError")
    ELSE CompiledDocument(d, role, scope, ref_documents, depth,
                          Document_is_recursive(d, role, depth + 1))

get_definitions_and_schema(f, role, scope, ref_documents, depth) ==
    IF depth > MaxDepth THEN Raise2("RecursionError")
    ELSE CASE IsSchemaLeaf(fields[f].cls) ->
                Leaf_get_definitions_and_schema(f, role, scope)
           [] fields[f].cls = "DictField" ->
                DictField_get_definitions_and_schema(f, role, scope, ref_documents, depth)
           [] fields[f].cls = "ArrayField" ->
                ArrayField_get_definitions_and_schema(f, role, scope, ref_documents, depth)
           [] IsOfField(fields[f].cls) ->
                BaseOfField_get_definitions_and_schema(f, role, scope, ref_documents, depth)
           [] fields[f].cls = "NotField" ->
                NotField_get_definitions_and_schema(f, role, scope, ref_documents, depth)
           [] OTHER ->
                DocumentField_get_definitions_and_schema(f, role, scope, ref_documents, depth)

\* --- the fields a compilation reaches --------------------------------------
RECURSIVE compiled_fields(_, _, _)
RECURSIVE compiled_each(_, _, _, _)

\* A present child and what compiling it under its role reaches.
CompiledChild(r, depth) ==
    IF r[1].t # "field" THEN {}
    ELSE {r[1].id} \cup compiled_fields(r[1].id, r[2], depth + 1)

compiled_each(values, i, role, depth) ==
    IF i > Len(values) THEN {}
    ELSE CompiledChild(maybe_resolve_2(values[i], role), depth)
         \cup compiled_each(values, i + 1, role, depth)

\* The children held by a resolved attribute: a mapping, a list or a field.
ChildValues(v) ==
    CASE v.t = "dict" -> ItemValues(v.items)
      [] v.t = "list" -> v.l
      [] v.t = "field" -> <<v>>
      [] OTHER -> <<>>

CompiledIn(p, depth) == compiled_each(ChildValues(p[1]), 1, p[2], depth)

\* The fields whose get_definitions_and_schema is called while the field f
\* is compiled under the role (DocumentFields are not followed).
compiled_fields(f, role, depth) ==
    IF depth > MaxDepth THEN {}
    ELSE CASE fields[f].cls = "DictField" ->
                CompiledIn(maybe_resolve_2(fields[f].properties, role), depth)
                \cup CompiledIn(maybe_resolve_2(fields[f].pattern_properties, role), depth)
                \cup CompiledIn(maybe_resolve_2(fields[f].additional_properties, role),
                                depth)
           [] fields[f].cls = "ArrayField" ->
                CompiledIn(maybe_resolve_2(fields[f].items, role), depth)
                \cup CompiledIn(maybe_resolve_2(fields[f].additional_items, role), depth)
           [] IsOfField(fields[f].cls) ->
                CompiledIn(maybe_resolve_2(fields[f].fields, role), depth)
           [] fields[f].cls = "NotField" ->
                CompiledIn(maybe_resolve_2(fields[f].field, role), depth)
           [] OTHER -> {}

WithDefinitions(c) ==
    IF c.err # "" THEN c
    ELSE Ok2(c.defs, SetIf(c.defs # EmptyMap, c.schema, "definitions", Obj(c.defs)))

\* BaseField.get_schema
get_schema(f, role) ==
    WithDefinitions(get_definitions_and_schema(f, role, ResolutionScope, {}, 0))

(***************************************************************************)
(* The field trees the operations are applied to.  A scene is a heap of    *)
(* fields, the Documents declared over it, and the owner each              *)
(* DocumentField got when its Document was constructed.                    *)
(***************************************************************************)
Roles == {DEFAULT_ROLE, "role_1", "role_2"}

PassDowns == {{}, {"role_1"}, {"role_1", "role_2"}}

Var1(p, v, pass) == Var(<<Entry(p, v)>>, pass)

Scene(fs, docs, owners) == [fields |-> fs, documents |-> docs, owner_cls |-> owners]

NoDocuments == <<>>

\* --- an object field over two leaves ------------------------------------
PropertyA ==
    {Fld(1), Var1(Lit("role_1"), Fld(1), {}), Var1(Lit("role_1"), Fld(1), {"role_1"}),
     Var1(Not("role_1"), Fld(1), {})}
PropertyB == {Fld(2), Var1(Lit("role_2"), Fld(2), {})}

PropertyMaps ==
    {Dict(<<>>)}
    \cup {Dict(<<Item("a", x)>>) : x \in PropertyA}
    \cup {Dict(<<Item("a", x), Item("b", y)>>) : x \in PropertyA, y \in PropertyB}
    \cup {Dict(<<Item("a", Fld(1)), Item("b", Fld(2)),
                 Item("c", Var1(Lit("role_1"), Fld(1), {}))>>)}

PropertiesAttrs ==
    {NoneV} \cup PropertyMaps
    \cup {Var1(p, m, pass) : p \in {Lit("role_1"), Not("role_1")},
                             m \in PropertyMaps, pass \in PassDowns}

RequiredAttrs == {Bool(TRUE), Var1(Lit("role_1"), Bool(TRUE), {})}

DictScene(properties, required, pattern) ==
    Scene(<<Required(StringField, required),
            Required(NumberField, Var1(Not("role_2"), Bool(TRUE), {})),
            DictField(properties, IF pattern THEN properties ELSE NoneV)>>,
          NoDocuments, <<>>)

DictScenes ==
    {DictScene(p, r, pat) : p \in PropertiesAttrs, r \in RequiredAttrs, pat \in BOOLEAN}

\* --- composition fields over three leaves -------------------------------
OfElements == {Fld(2), Var1(Lit("role_1"), Fld(1), {}), Var1(Not("role_1"), Fld(3), {})}

OfLists ==
    {List(<<>>)}
    \cup {List(<<x>>) : x \in OfElements}
    \cup {List(<<x, y>>) : x \in OfElements, y \in OfElements}

OfFieldsAttrs ==
    OfLists
    \cup {Var1(p, l, pass) : p \in {Lit("role_1"), Not("role_1")},
                             l \in OfLists, pass \in PassDowns}

OfScene(cls, fs, negated) ==
    Scene(<<StringField, NumberField, IntField, BaseOfField(cls, fs), NotField(negated)>>,
          NoDocuments, <<>>)

OfScenes ==
    {OfScene("OneOfField", fs, Fld(4)) : fs \in OfFieldsAttrs}
    \cup {OfScene(cls, fs, x) : cls \in {"AnyOfField", "AllOfField"},
                                fs \in {List(<<Fld(2), Var1(Lit("role_1"), Fld(1), {})>>)},
                                x \in {Var1(Lit("role_1"), Fld(1), {}),
                                       Var1(Not("role_1"), Fld(4), {"role_2"})}}

\* --- documents A and B, a field of each pointing to a document, and a
\* --- DocumentField that no document declares ----------------------------
DocA == "A"
DocB == "B"

Document(name, field) ==
    [name |-> name, module |-> "app", definition_id |-> name, field |-> field]

Targets1 == {Str(RECURSIVE_REFERENCE_CONSTANT), Doc(DocB), Var1(Lit("role_1"), Doc(DocB), {})}
Targets2 == {NoneV, Doc(DocA), Str(RECURSIVE_REFERENCE_CONSTANT)}
Targets3 == {Doc(DocA), Doc(DocB), Str(RECURSIVE_REFERENCE_CONSTANT),
             Var(<<Entry(Lit("role_1"), Doc(DocA)), Entry(Lit("role_2"), Doc(DocB))>>, {})}

\* Fields 3 and 4 are A.next and B.a (B has no field `a` when target2 is None),
\* field 5 is declared by no document, fields 6 and 7 back A and B.
DocScene(target1, target2, target3, as_ref, as_ref3) ==
    Scene(<<Required(StringField, Bool(TRUE)),
            NumberField,
            DocumentField(target1, as_ref),
            DocumentField(target2, as_ref),
            DocumentField(target3, as_ref3),
            [DictField(Dict(<<Item("id", Var1(Lit("role_1"), Fld(1), {})),
                              Item("next", Fld(3))>>), NoneV)
                EXCEPT !.additional_properties = Bool(FALSE)],
            [DictField(IF target2.t = "none"
                       THEN Dict(<<Item("name", Fld(2))>>)
                       ELSE Dict(<<Item("name", Fld(2)), Item("a", Fld(4))>>), NoneV)
                EXCEPT !.additional_properties = Bool(FALSE)]>>,
          (DocA :> Document(DocA, 6)) @@ (DocB :> Document(DocB, 7)),
          (3 :> DocA) @@ (4 :> DocB) @@ (5 :> NoDoc))

\* Targets given by name: registered, registered in the owner's module only,
\* not registered; and the sentinel for one role only.
NamedTargets ==
    {Str("app.B"), Str("B"), Str("X"),
     Var1(Lit("role_1"), Str(RECURSIVE_REFERENCE_CONSTANT), {})}

DocScenes ==
    {DocScene(t1, t2, t3, r, r3) :
        t1 \in Targets1, t2 \in Targets2, t3 \in Targets3, r \in BOOLEAN, r3 \in BOOLEAN}
    \cup {DocScene(Str(RECURSIVE_REFERENCE_CONSTANT), NoneV, t3, FALSE, FALSE) :
             t3 \in NamedTargets}

\* --- title, description, enum, default and id ----------------------------
Common(title, description, enum, default) ==
    [title |-> title, description |-> description, enum |-> enum, default |-> default]

\* None of them; plain values; values for role_1 only, as in test_base_field.
CommonAttrs ==
    {Common(NoneV, NoneV, NoneV, NoneV),
     Common(Str("Title"), Str("Description"), List(<<IntV(1), IntV(2)>>),
            Callable(IntV(1))),
     Common(Var1(Lit("role_1"), Str("Title"), {}),
            Var1(Lit("role_1"), Str("Description"), {}),
            Var1(Lit("role_1"), Callable(List(<<IntV(1), IntV(2)>>)), {}),
            Var1(Lit("role_1"), Callable(IntV(1)), {}))}

Ids == {"", "x"}

WithCommon(field, common, id) ==
    [field EXCEPT !.title = common.title, !.description = common.description,
                  !.enum = common.enum, !.default = common.default, !.id = id]

\* One field of every schema-bearing class, each with the same attributes.
CommonScene(common, id) ==
    Scene([i \in 1..9 |->
              WithCommon(<<BooleanField, StringField, NumberField,
                           DictField(Dict(<<Item("a", Fld(3))>>), NoneV),
                           BaseOfField("OneOfField", List(<<Fld(3)>>)),
                           BaseOfField("AnyOfField", List(<<Fld(2)>>)),
                           BaseOfField("AllOfField", List(<<Fld(1)>>)),
                           NotField(Fld(3)),
                           ArrayField(Fld(3), NoneV)>>[i],
                         common, id)],
          NoDocuments, <<>>)

CommonScenes == {CommonScene(common, id) : common \in CommonAttrs, id \in Ids}

\* --- an array field over three leaves ------------------------------------
ArrayItemsAttrs ==
    {Fld(1),
     Var1(Lit("role_1"), Fld(1), {}),
     Var(<<Entry(Lit("role_1"), Fld(1)), Entry(Lit("role_2"), Fld(2))>>, {}),
     List(<<Fld(1), Fld(2)>>),
     List(<<Fld(1), Var1(Lit("role_1"), Fld(2), {})>>),
     List(<<Var1(Not("role_1"), Fld(2), {}), Fld(1)>>)}
    \cup {Var1(Lit("role_1"), List(<<Fld(1), Var1(Lit("role_1"), Fld(2), {})>>), pass) :
             pass \in PassDowns}

AdditionalItemsAttrs == {NoneV, Bool(TRUE), Fld(3)}

ArrayScene(items, additional_items, common, id) ==
    Scene(<<StringField, NumberField, IntField,
            WithCommon(ArrayField(items, additional_items), common, id)>>,
          NoDocuments, <<>>)

ArrayScenes ==
    {ArrayScene(items, additional_items, common, id) :
        items \in ArrayItemsAttrs, additional_items \in AdditionalItemsAttrs,
        common \in CommonAttrs, id \in Ids}

\* --- composition fields over a DocumentField ------------------------------
\* Fields 8 and 9 are a oneOf and a not whose child for role_1 is the
\* DocumentField 5, which puts its target into the definitions.
OfDocScene(target3) ==
    [DocScene(Doc(DocB), NoneV, target3, FALSE, TRUE) EXCEPT
        !.fields = @ \o <<BaseOfField("OneOfField",
                                      List(<<Var1(Lit("role_1"), Fld(5), {"role_1"}),
                                             Fld(2)>>)),
                          NotField(Var1(Lit("role_1"), Fld(5), {}))>>]

OfDocScenes == {OfDocScene(target3) : target3 \in {Doc(DocA), Doc(DocB)}}

\* --- a composition field inside an object field ---------------------------
\* The properties are chosen for role_1 by a Var that passes no role down;
\* the only child of the oneOf is present for role_1 only.
NestedScene ==
    Scene(<<StringField,
            BaseOfField("OneOfField", List(<<Var1(Lit("role_1"), Fld(1), {})>>)),
            DictField(Var1(Lit("role_1"), Dict(<<Item("a", Fld(2))>>), {}), NoneV)>>,
          NoDocuments, <<>>)

Scenes ==
    DictScenes \cup OfScenes \cup DocScenes \cup CommonScenes \cup ArrayScenes
    \cup OfDocScenes \cup {NestedScene}

(***************************************************************************)
(* State machine: a client calls an operation and takes its result.        *)
(***************************************************************************)
FieldIds == DOMAIN fields
DocIds == DOMAIN documents
DocumentFieldIds == {f \in FieldIds : fields[f].cls = "DocumentField"}

Call(op, f, d, role, ref_documents, through) ==
    [op |-> op, f |-> f, d |-> d, role |-> role, ref_documents |-> ref_documents,
     through_document_fields |-> through, var |-> NoneV]

Idle == Call("none", 0, NoDoc, DEFAULT_ROLE, {}, FALSE)

Init ==
    \E scene \in Scenes :
        /\ fields = scene.fields
        /\ documents = scene.documents
        /\ owner_cls = scene.owner_cls
        /\ call = Idle
        /\ ret = NoneV

\* A plausible slip: what the attributes resolve to is stored on the field.
Compile_storing_resolved(f, role, ref_documents) ==
    /\ call = Idle
    /\ call' = Call("get_definitions_and_schema", f, NoDoc, role, ref_documents, FALSE)
    /\ ret' = get_definitions_and_schema(f, role, ResolutionScope, ref_documents, 0)
    /\ fields' = [fields EXCEPT ![f].properties = maybe_resolve(@, role),
                                ![f].fields = maybe_resolve(@, role),
                                ![f].document_cls = maybe_resolve(@, role)]
    /\ UNCHANGED <<documents, owner_cls>>

\* field.get_definitions_and_schema(role=role, ref_documents=ref_documents)
Compile(f, role, ref_documents) ==
    /\ call = Idle
    /\ call' = Call("get_definitions_and_schema", f, NoDoc, role, ref_documents, FALSE)
    /\ ret' = get_definitions_and_schema(f, role, ResolutionScope, ref_documents, 0)
    /\ UNCHANGED <<fields, documents, owner_cls>>

\* document.get_definitions_and_schema(role=role, ref_documents=ref_documents)
DocumentCompile(d, role, ref_documents) ==
    /\ call = Idle
    /\ call' = Call("Document.get_definitions_and_schema", 0, d, role, ref_documents, FALSE)
    /\ ret' = Document_get_definitions_and_schema(d, role, ResolutionScope, ref_documents, 0)
    /\ UNCHANGED <<fields, documents, owner_cls>>

\* field.get_schema(role=role)
GetSchema(f, role) ==
    /\ call = Idle
    /\ call' = Call("get_schema", f, NoDoc, role, {}, FALSE)
    /\ ret' = get_schema(f, role)
    /\ UNCHANGED <<fields, documents, owner_cls>>

\* list(field.iter_fields(role=role))
IterFields(f, role) ==
    /\ call = Idle
    /\ call' = Call("iter_fields", f, NoDoc, role, {}, FALSE)
    /\ ret' = iter_fields(f, role)
    /\ UNCHANGED <<fields, documents, owner_cls>>

\* list(field.walk(role=role, through_document_fields=through))
Walk(f, role, through) ==
    /\ call = Idle
    /\ call' = Call("walk", f, NoDoc, role, {}, through)
    /\ ret' = walk(f, role, through, {}, <<>>, 0)
    /\ UNCHANGED <<fields, documents, owner_cls>>

\* field.get_document_cls(role=role)
GetDocumentCls(f, role) ==
    /\ call = Idle
    /\ call' = Call("get_document_cls", f, NoDoc, role, {}, FALSE)
    /\ ret' = DocumentField_get_document_cls(f, role)
    /\ UNCHANGED <<fields, documents, owner_cls>>

\* field.set_owner(owner_cls), on a DocumentField no document owns yet
SetOwner(f, d) ==
    /\ call = Idle
    /\ owner_cls[f] = NoDoc
    /\ owner_cls' = [owner_cls EXCEPT ![f] = d]
    /\ UNCHANGED <<fields, documents, call, ret>>

\* The client takes the result.
Return ==
    /\ call # Idle
    /\ call' = Idle
    /\ ret' = NoneV
    /\ UNCHANGED <<fields, documents, owner_cls>>

Next ==
    \/ \E f \in FieldIds, role \in Roles, refs \in SUBSET DocIds : Compile(f, role, refs)
    \/ \E d \in DocIds, role \in Roles, refs \in SUBSET DocIds : DocumentCompile(d, role, refs)
    \/ \E f \in FieldIds, role \in Roles : GetSchema(f, role)
    \/ \E f \in FieldIds, role \in Roles : IterFields(f, role)
    \/ \E f \in FieldIds, role \in Roles, through \in BOOLEAN : Walk(f, role, through)
    \/ \E f \in DocumentFieldIds, role \in Roles : GetDocumentCls(f, role)
    \/ \E f \in DocumentFieldIds, d \in DocIds : SetOwner(f, d)
    \/ Return

Spec == Init /\ [][Next]_vars

(***************************************************************************)
(* Var.resolve and Var.resolve_2 on their own: every Var of at most        *)
(* MaxVarLen entries, the value of an entry being its position.            *)
(***************************************************************************)
VarRoles == Roles \cup {"role_3"}

VarPredicates ==
    {Lit(r) : r \in VarRoles} \cup {Not("role_1"), Not("role_3")}

VarsUnderTest(pass) ==
    UNION {{Var([i \in 1..n |-> Entry(ps[i], IntV(i))], pass) :
                ps \in [1..n -> VarPredicates]} : n \in 0..MaxVarLen}

InitVar ==
    /\ fields = DictScene(NoneV, Bool(TRUE), FALSE).fields
    /\ documents = NoDocuments
    /\ owner_cls = <<>>
    /\ call = Idle
    /\ ret = NoneV

\* var.resolve(role), for a Var and a role of the client's choice
Resolve ==
    /\ call = Idle
    /\ \E var \in VarsUnderTest({}), role \in VarRoles :
          /\ call' = [Idle EXCEPT !.op = "resolve", !.role = role, !.var = var]
          /\ ret' = Var_resolve(var, role)
    /\ UNCHANGED <<fields, documents, owner_cls>>

\* var.resolve_2(role), for a Var and a role of the client's choice
Resolve2 ==
    /\ call = Idle
    /\ \E pass \in PassDowns :
          \E var \in VarsUnderTest(pass), role \in VarRoles :
              /\ call' = [Idle EXCEPT !.op = "resolve_2", !.role = role, !.var = var]
              /\ ret' = Var_resolve_2(var, role)
    /\ UNCHANGED <<fields, documents, owner_cls>>

NextVar ==
    \/ Resolve
    \/ Resolve2
    \/ Return

SpecVar == InitVar /\ [][NextVar]_vars

(***************************************************************************)
(* Properties                                                              *)
(***************************************************************************)
SeqRange(s) == {s[i] : i \in 1..Len(s)}

NoDuplicates(s) == \A i, j \in 1..Len(s) : s[i] = s[j] => i = j

\* The positions of a Var's entries whose predicate matches the role: a
\* literal name matches the equal role, Not(r) every role but r.
MatchingEntries(var, role) ==
    {i \in 1..Len(var.values) :
        \/ var.values[i].p.k = "lit" /\ var.values[i].p.r = role
        \/ var.values[i].p.k = "not" /\ var.values[i].p.r # role}

\* C1: Var.resolve returns the value of the first entry, in declaration
\* order, whose predicate matches the role, and None when no entry matches;
\* a leading Not('role_3') entry therefore wins for every role but role_3,
\* for which the scan goes on to the later entries.
C1_FirstMatchWins ==
    call.op = "resolve" =>
        LET m == MatchingEntries(call.var, call.role)
        IN /\ m = {} => ret = NoneV
           /\ m # {} =>
                \E i \in m : /\ \A j \in m : i <= j
                             /\ ret = call.var.values[i].v
           /\ (Len(call.var.values) > 0
                 /\ call.var.values[1].p = Not("role_3")) =>
                IF call.role # "role_3" THEN ret = call.var.values[1].v
                ELSE ret # call.var.values[1].v

\* The second Var of test_var: Not('role_3') first, then two literal names,
\* asked for role_1, answers with the first entry although the second
\* matches too.
C1_Witness ==
    /\ call.op = "resolve"
    /\ call.role = "role_1"
    /\ Len(call.var.values) = 3
    /\ call.var.values[1].p = Not("role_3")
    /\ call.var.values[2].p = Lit("role_1")
    /\ call.var.values[3].p = Lit("role_2")
    /\ ret = IntV(1)

\* The role under which what is nested in an attribute is resolved.
EffectiveRole(attr, role) ==
    IF attr.t = "var" /\ role \notin attr.roles_to_pass_down THEN DEFAULT_ROLE ELSE role

\* The positions of a mapping's or a list's entries that resolve to a field.
PresentAt(values, role) ==
    {i \in 1..Len(values) : maybe_resolve(values[i], role).t = "field"}

PresentKeys(m, role) ==
    {m.items[i].k : i \in PresentAt(ItemValues(m.items), role)}

\* The subsequence of s at the positions in keep.
RECURSIVE Pick(_, _, _)
Pick(s, i, keep) ==
    IF i > Len(s) THEN <<>>
    ELSE IF i \in keep THEN <<s[i]>> \o Pick(s, i + 1, keep)
    ELSE Pick(s, i + 1, keep)

LeafSchema(v) == Obj("type" :> Str(LeafType(fields[v.id].cls)))

CompiledOk == call.op = "get_definitions_and_schema" /\ ret.err = ""

\* What compiling the child v (a field or a Var of fields, present under
\* the role r of its parent) gives, the parent being the field of the call.
ChildCompiled(v, r) ==
    get_definitions_and_schema(maybe_resolve(v, r).id, EffectiveRole(v, r),
                               Scope_alter(ResolutionScope, fields[call.f].id)[2],
                               call.ref_documents, 1)

\* The emitted keys of a child-holding mapping are those of the entries
\* present under the role r.
EmitsKeysUnder(attr, key, r) ==
    maybe_resolve(attr, call.role).t = "dict" =>
        /\ key \in DOMAIN ret.schema
        /\ DOMAIN ret.schema[key].m = PresentKeys(maybe_resolve(attr, call.role), r)

\* C2: when the attribute holding the children of a field (properties,
\* pattern_properties, the fields of a composition field) is a Var, the Vars
\* nested in its value are resolved under the queried role if that role is
\* in the Var's pass-down set and under the default role otherwise; when the
\* attribute is not a Var the children get the queried role unchanged.
C2_PassDownRole ==
    CompiledOk =>
        LET f == fields[call.f]
        IN /\ f.cls = "DictField" =>
                /\ EmitsKeysUnder(f.properties, "properties",
                                  EffectiveRole(f.properties, call.role))
                /\ EmitsKeysUnder(f.pattern_properties, "patternProperties",
                                  EffectiveRole(f.pattern_properties, call.role))
           /\ (IsOfField(f.cls) /\ maybe_resolve(f.fields, call.role).t = "list") =>
                LET l == maybe_resolve(f.fields, call.role).l
                    r == EffectiveRole(f.fields, call.role)
                    present == Pick(l, 1, PresentAt(l, r))
                IN ret.schema[Keyword(f.cls)] =
                      List([i \in 1..Len(present) |->
                               Obj(ChildCompiled(present[i], r).schema)])

\* A composition field whose list is chosen for role_1 by a Var that passes
\* no role down, queried for role_1: the nested Vars are resolved under the
\* default role, so the one for role_1 is dropped and the one for every role
\* but role_1 is kept.
C2_Witness ==
    /\ CompiledOk
    /\ call.role = "role_1"
    /\ IsOfField(fields[call.f].cls)
    /\ fields[call.f].fields =
          Var1(Lit("role_1"),
               List(<<Var1(Lit("role_1"), Fld(1), {}), Var1(Not("role_1"), Fld(3), {})>>),
               {})
    /\ ret.schema[Keyword(fields[call.f].cls)] = List(<<LeafSchema(Fld(3))>>)

\* The role under which the attributes of the property at position i of
\* the mapping m are resolved, the mapping's entries being resolved under r.
FieldRole(m, i, r) == EffectiveRole(m.items[i].v, r)

RequiredKeys(m, r) ==
    {m.items[i].k : i \in
        {j \in PresentAt(ItemValues(m.items), r) :
            Truthy(maybe_resolve(fields[maybe_resolve(m.items[j].v, r).id].required,
                                 FieldRole(m, j, r)))}}

\* C3: the properties object of a compiled DictField holds exactly the
\* names of the properties present under the field's effective role, and
\* `required` lists, once each, exactly those present properties whose
\* required attribute resolves truthy under the property's effective role;
\* pattern properties add nothing to `required`.
C3_RequiredAggregation ==
    (CompiledOk /\ fields[call.f].cls = "DictField"
        /\ maybe_resolve(fields[call.f].properties, call.role).t = "dict") =>
        LET m == maybe_resolve(fields[call.f].properties, call.role)
            r == EffectiveRole(fields[call.f].properties, call.role)
        IN /\ DOMAIN ret.schema["properties"].m = PresentKeys(m, r)
           /\ IF RequiredKeys(m, r) = {} THEN "required" \notin DOMAIN ret.schema
              ELSE /\ "required" \in DOMAIN ret.schema
                   /\ NoDuplicates(ret.schema["required"].l)
                   /\ SeqRange(ret.schema["required"].l) =
                         {Str(k) : k \in RequiredKeys(m, r)}

\* Properties a (required), b (required for every role but role_2) and c
\* (present for role_1 only), with the same mapping as pattern properties,
\* compiled for role_2: a and b are emitted, only a is required.
C3_Witness ==
    /\ CompiledOk
    /\ call.role = "role_2"
    /\ fields[call.f].cls = "DictField"
    /\ fields[call.f].properties =
          Dict(<<Item("a", Fld(1)), Item("b", Fld(2)),
                 Item("c", Var1(Lit("role_1"), Fld(1), {}))>>)
    /\ fields[call.f].pattern_properties = fields[call.f].properties
    /\ fields[1].required = Bool(TRUE)
    /\ DOMAIN ret.schema["properties"].m = {"a", "b"}
    /\ DOMAIN ret.schema["patternProperties"].m = {"a", "b"}
    /\ ret.schema["required"] = List(<<Str("a")>>)

\* C4: a compiled DictField has no `properties` (`patternProperties`) key
\* when the attribute resolves to nothing, and has the key when it resolves
\* to a mapping, even an empty one or one whose entries are all absent: the
\* key then holds the empty object, and no `required` key is emitted.
C4_AbsentVersusEmpty ==
    (CompiledOk /\ fields[call.f].cls = "DictField") =>
        LET p == maybe_resolve(fields[call.f].properties, call.role)
            pp == maybe_resolve(fields[call.f].pattern_properties, call.role)
        IN /\ "properties" \in DOMAIN ret.schema <=> p.t = "dict"
           /\ "patternProperties" \in DOMAIN ret.schema <=> pp.t = "dict"
           /\ p.t = "none" => "required" \notin DOMAIN ret.schema
           /\ (p.t = "dict"
                 /\ PresentKeys(p, EffectiveRole(fields[call.f].properties, call.role)) = {})
                => /\ ret.schema["properties"] = Obj(EmptyMap)
                   /\ "required" \notin DOMAIN ret.schema
           /\ (pp.t = "dict"
                 /\ PresentKeys(pp, EffectiveRole(fields[call.f].pattern_properties,
                                                  call.role)) = {})
                => ret.schema["patternProperties"] = Obj(EmptyMap)

\* As in the last case of test_dict_field: a mapping chosen by a Var whose
\* only entry is absent under the role passed down (the default one); both
\* keys are emitted with the empty object and `required` is not.
C4_Witness ==
    /\ CompiledOk
    /\ call.role = "role_1"
    /\ fields[call.f].cls = "DictField"
    /\ fields[call.f].properties =
          Var1(Lit("role_1"), Dict(<<Item("a", Var1(Lit("role_1"), Fld(1), {}))>>), {})
    /\ fields[call.f].pattern_properties = fields[call.f].properties
    /\ ret.schema = ("type" :> Str("object")) @@ ("properties" :> Obj(EmptyMap))
                       @@ ("patternProperties" :> Obj(EmptyMap))

\* The Document a DocumentField points to under the role of the call.
Target == DocumentField_get_document_cls(call.f, call.role)

HasTarget == call.f \in DocumentFieldIds /\ Target.err = "" /\ Target.v.t = "doc"

RefTo(d) == "$ref" :> Str("#/definitions/" \o documents[d].definition_id)

\* C5: compiling a DocumentField whose target is in ref_documents gives
\* exactly no definitions and a $ref to the target's definition id, whether
\* or not as_ref is set.
C5_ReferencedDocument ==
    (call.op = "get_definitions_and_schema" /\ HasTarget
        /\ Target.v.d \in call.ref_documents) =>
        ret = Ok2(EmptyMap, RefTo(Target.v.d))

C5_Witness ==
    /\ call.op = "get_definitions_and_schema"
    /\ HasTarget
    /\ Target.v.d \in call.ref_documents
    /\ fields[call.f].as_ref
    /\ ret = Ok2(EmptyMap, RefTo(Target.v.d))

\* What compiling the target Document of the call gives.
TargetCompiled ==
    Document_get_definitions_and_schema(Target.v.d, call.role, ResolutionScope,
                                        call.ref_documents, 1)

\* C6: compiling a DocumentField whose target is not in ref_documents gives,
\* with as_ref unset, exactly the (definitions, schema) of the target, and,
\* with as_ref set, a $ref to the target's definition id as the schema and
\* the target's definitions plus the target's schema under its definition id.
C6_InlineOrReference ==
    (call.op = "get_definitions_and_schema" /\ HasTarget
        /\ Target.v.d \notin call.ref_documents /\ TargetCompiled.err = "") =>
        IF fields[call.f].as_ref
        THEN LET id == documents[Target.v.d].definition_id
             IN /\ ret.err = ""
                /\ ret.schema = RefTo(Target.v.d)
                /\ DOMAIN ret.defs = DOMAIN TargetCompiled.defs \cup {id}
                /\ ret.defs[id] = Obj(TargetCompiled.schema)
                /\ \A k \in DOMAIN TargetCompiled.defs :
                      k # id => ret.defs[k] = TargetCompiled.defs[k]
        ELSE ret = TargetCompiled

\* A DocumentField with as_ref, pointing to a Document B that refers to no
\* document: B's object schema goes to the definitions.
C6_Witness ==
    /\ call.op = "get_definitions_and_schema"
    /\ HasTarget
    /\ Target.v.d = DocB
    /\ call.ref_documents = {}
    /\ fields[call.f].as_ref
    /\ ret.err = ""
    /\ ret.schema = RefTo(DocB)
    /\ DOMAIN ret.defs = {DocB}
    /\ ret.defs[DocB].m["type"] = Str("object")
    /\ DOMAIN ret.defs[DocB].m["properties"].m = {"name"}

\* Document A declares next = DocumentField('self', as_ref=True).
SelfReferential ==
    /\ DocA \in DocIds
    /\ fields[3].document_cls = Str(RECURSIVE_REFERENCE_CONSTANT)
    /\ fields[3].as_ref

Walked(through) == call.op = "walk" /\ call.through_document_fields = through

\* C8: a walk through document fields terminates, and no Document is
\* expanded twice on the way to a yielded field: a DocumentField whose
\* target was expanded already on the path yields itself and nothing
\* beneath it.
C8_WalkTerminates ==
    Walked(TRUE) =>
        /\ ret.err # "RecursionError"
        /\ \A i \in 1..Len(ret.out) : NoDuplicates(ret.out[i].path)

\* A and B point to each other: the walk goes from a DocumentField into A,
\* from A.next into B, and stops at B.a, whose target A is on the path.
C8_Witness ==
    /\ Walked(TRUE)
    /\ ret.err = ""
    /\ fields[call.f].cls = "DocumentField"
    /\ fields[4].document_cls = Doc(DocA)
    /\ ret.out[Len(ret.out)] = Yield(4, <<Doc(DocA), Doc(DocB)>>)

\* How many times the field f was yielded.
Occurrences(f) == Cardinality({i \in 1..Len(ret.out) : ret.out[i].f = f})

\* C9: a walk that does not go through document fields yields nothing
\* beneath a DocumentField: a DocumentField yields exactly itself, a
\* container each DocumentField among its children; a walk through document
\* fields yields the DocumentField first and once, followed by the fields of
\* its target that are present under the role.
C9_WalkAndDocumentFields ==
    /\ Walked(FALSE) =>
          /\ \A i \in 1..Len(ret.out) : ret.out[i].path = <<>>
          /\ call.f \in DocumentFieldIds => ret = Yielded(<<Yield(call.f, <<>>)>>, "")
          /\ call.f \notin DocumentFieldIds =>
                \A c \in SeqRange(iter_fields(call.f, call.role).out) :
                    (c.t = "field" /\ c.id \in DocumentFieldIds) =>
                        Yield(c.id, <<>>) \in SeqRange(ret.out)
    /\ (Walked(TRUE) /\ call.f \in DocumentFieldIds) =>
          /\ ret.out[1] = Yield(call.f, <<>>)
          /\ Occurrences(call.f) = 1
          /\ (ret.err = "" /\ HasTarget) =>
                \A c \in SeqRange(Document_iter_fields(Target.v.d, call.role).out) :
                    c.id # call.f =>
                        \E i \in 2..Len(ret.out) : ret.out[i] = Yield(c.id, <<Target.v>>)

\* As in test_document_field: the DocumentField, then the two fields of its
\* target A present under role_1.
C9_Witness ==
    /\ Walked(TRUE)
    /\ call.role = "role_1"
    /\ call.f = 5
    /\ HasTarget
    /\ Target.v.d = DocA
    /\ ret.err = ""
    /\ SubSeq(ret.out, 1, 3) = <<Yield(5, <<>>), Yield(1, <<Doc(DocA)>>),
                                 Yield(3, <<Doc(DocA)>>)>>

\* C10: when the Var of a DocumentField has no match for the role,
\* get_document_cls returns None and compiling the field, iterating its
\* children and walking it complete without an error.
C10_AbsentDocumentContributesNothing ==
    (call.f \in DocumentFieldIds /\ fields[call.f].document_cls.t = "var"
        /\ Var_resolve(fields[call.f].document_cls, call.role) = NoneV) =>
        /\ ret.err = ""
        /\ call.op = "get_document_cls" => ret.v = NoneV

\* The part of it that holds: get_document_cls returns None, and a walk
\* that does not go through document fields yields the field.
C10_AbsentDocumentResolved ==
    (call.f \in DocumentFieldIds /\ fields[call.f].document_cls.t = "var"
        /\ Var_resolve(fields[call.f].document_cls, call.role) = NoneV) =>
        /\ call.op = "get_document_cls" => ret = OkV(NoneV)
        /\ Walked(FALSE) => ret = Yielded(<<Yield(call.f, <<>>)>>, "")
        /\ call.op \in {"get_definitions_and_schema", "get_schema", "iter_fields"}
              => ret.err = "AttributeError"
        /\ Walked(TRUE) => ret = Yielded(<<Yield(call.f, <<>>)>>, "AttributeError")

(***************************************************************************)
(* Construction on its own: a client constructs StringFields and           *)
(* DictFields over one leaf, up to MaxFields fields, and compiles them.    *)
(***************************************************************************)
StringPatterns ==
    {NoneV, Str("a"), Str("("),
     Var1(Lit("role_1"), Str("("), {}),
     Var(<<Entry(Lit("role_1"), Str("a")), Entry(Lit("role_2"), Str("("))>>, {}),
     Var(<<Entry(Lit("role_1"), Str("a")), Entry(Lit("role_2"), Str("b"))>>, {})}

PatternProperties ==
    {NoneV, Dict(<<Item("a", Fld(1))>>), Dict(<<Item("(", Fld(1))>>),
     Var1(Lit("role_1"), Dict(<<Item("(", Fld(1))>>), {})}

InitNew ==
    /\ fields = <<StringField>>
    /\ documents = NoDocuments
    /\ owner_cls = <<>>
    /\ call = Idle
    /\ ret = NoneV

\* The object joins the fields unless __init__ raised.
Constructed(r) ==
    /\ fields' = IF r.err = "" THEN Append(fields, r.v) ELSE fields
    /\ ret' = IF r.err = "" THEN OkV(Fld(Len(fields) + 1)) ELSE r
    /\ UNCHANGED <<documents, owner_cls>>

\* StringField(pattern=pattern)
NewStringField ==
    /\ call = Idle
    /\ Len(fields) < MaxFields
    /\ \E pattern \in StringPatterns :
          /\ call' = [Idle EXCEPT !.op = "StringField", !.var = pattern]
          /\ Constructed(StringField___init__(pattern))

\* DictField(pattern_properties=pattern_properties)
NewDictField ==
    /\ call = Idle
    /\ Len(fields) < MaxFields
    /\ \E pattern_properties \in PatternProperties :
          /\ call' = [Idle EXCEPT !.op = "DictField", !.var = pattern_properties]
          /\ Constructed(DictField___init__(NoneV, pattern_properties))

NextNew ==
    \/ NewStringField
    \/ NewDictField
    \/ \E f \in FieldIds, role \in Roles : Compile(f, role, {})
    \/ \E f \in FieldIds, role \in Roles : GetSchema(f, role)
    \/ Return

SpecNew == InitNew /\ [][NextNew]_vars

\* The keys of a pattern_properties argument, whatever the role.
PatternKeys(pattern_properties) ==
    UNION {{m.items[i].k : i \in 1..Len(m.items)} :
              m \in {v \in SeqRange(maybe_resolve_all_roles(pattern_properties)) :
                        v.t = "dict"}}

Compiling == call.op \in {"get_definitions_and_schema", "get_schema"}

\* C11: a DictField with an invalid regular expression as a pattern key is
\* rejected by its constructor, and compiling a DictField never raises for a
\* pattern key.
C11_PatternKeyRejectedAtConstruction ==
    /\ (call.op = "DictField" /\ PatternKeys(call.var) \cap InvalidRegex # {})
          => ret.err = "ValueError"
    /\ (Compiling /\ fields[call.f].cls = "DictField") => ret.err = ""

\* What the code does instead: the constructor accepts every key, and the
\* key is rejected when, and only when, the field is compiled under a role
\* for which the mapping with the invalid key is the resolved one.
C11_PatternKeyRejectedAtCompilation ==
    /\ call.op = "DictField" => ret.err = ""
    /\ (Compiling /\ fields[call.f].cls = "DictField") =>
          LET pp == maybe_resolve(fields[call.f].pattern_properties, call.role)
          IN ret.err = IF pp.t = "dict" /\ PatternKeys(pp) \cap InvalidRegex # {}
                       THEN "ValueError" ELSE ""

\* The variants of a pattern, a pattern of None having none.
PatternVariants(pattern) ==
    {v.s : v \in {w \in SeqRange(maybe_resolve_all_roles(pattern)) : w.t = "str"}}

\* C12: constructing a StringField raises ValueError exactly when its
\* pattern, or a variant of it when it is a Var, is an invalid regular
\* expression, so no StringField has an invalid variant, whatever the role
\* it is compiled under later, and compiling one never raises.
C12_PatternValidatedAtConstruction ==
    /\ call.op = "StringField" =>
          /\ ret.err = IF PatternVariants(call.var) \cap InvalidRegex # {}
                       THEN "ValueError" ELSE ""
          /\ ret.err = "" => fields[ret.v.id].pattern = call.var
    /\ \A f \in FieldIds :
          fields[f].cls = "StringField" =>
              PatternVariants(fields[f].pattern) \cap InvalidRegex = {}
    /\ (Compiling /\ fields[call.f].cls = "StringField") =>
          /\ ret.err = ""
          /\ "pattern" \in DOMAIN ret.schema
                <=> maybe_resolve(fields[call.f].pattern, call.role).t = "str"

\* As in test_string_field: a pattern that is invalid for role_1 only is
\* rejected, and no field is constructed.
C12_Witness ==
    /\ call.op = "StringField"
    /\ call.var = Var1(Lit("role_1"), Str("("), {})
    /\ ret = RaiseV("ValueError")
    /\ Len(fields) = 1

\* The Documents registered under a dotted name.
Registered(name) ==
    {d \in DocIds : documents[d].module \o "." \o documents[d].name = name}

\* C13: when the document of a DocumentField resolves to the sentinel
\* 'self', get_document_cls returns the owner set by set_owner, whatever the
\* role, and raises ValueError when no owner was set; a name is looked up in
\* the registry first, and the owner's module is tried only when that
\* lookup fails, with ValueError when there is no owner.
C13_SelfAndNamedTargets ==
    (call.op = "get_document_cls"
        /\ maybe_resolve(fields[call.f].document_cls, call.role).t = "str") =>
        LET name == maybe_resolve(fields[call.f].document_cls, call.role).s
            owner == owner_cls[call.f]
        IN IF name = RECURSIVE_REFERENCE_CONSTANT
           THEN ret = IF owner = NoDoc THEN RaiseV("ValueError") ELSE OkV(Doc(owner))
           ELSE IF Registered(name) # {}
           THEN ret.err = "" /\ ret.v.t = "doc" /\ ret.v.d \in Registered(name)
           ELSE IF owner = NoDoc THEN ret = RaiseV("ValueError")
           ELSE IF Registered(documents[owner].module \o "." \o name) # {}
           THEN /\ ret.err = "" /\ ret.v.t = "doc"
                /\ ret.v.d \in Registered(documents[owner].module \o "." \o name)
           ELSE ret = RaiseV("KeyError")

\* A DocumentField('self') that no Document declares, after set_owner(B).
C13_Witness ==
    /\ call.op = "get_document_cls"
    /\ call.f = 5
    /\ fields[5].document_cls = Str(RECURSIVE_REFERENCE_CONSTANT)
    /\ owner_cls[5] = DocB
    /\ ret = OkV(Doc(DocB))

QueryOps ==
    {"get_definitions_and_schema", "Document.get_definitions_and_schema", "get_schema",
     "iter_fields", "walk"}

\* What the call whose result is held gives when it is made once more.
Again ==
    CASE call.op = "get_definitions_and_schema" ->
            get_definitions_and_schema(call.f, call.role, ResolutionScope,
                                       call.ref_documents, 0)
      [] call.op = "Document.get_definitions_and_schema" ->
            Document_get_definitions_and_schema(call.d, call.role, ResolutionScope,
                                                call.ref_documents, 0)
      [] call.op = "get_schema" -> get_schema(call.f, call.role)
      [] call.op = "iter_fields" -> iter_fields(call.f, call.role)
      [] call.op = "walk" ->
            walk(call.f, call.role, call.through_document_fields, {}, <<>>, 0)
      [] OTHER -> ret

Writes(key, v) ==
    IF v.t = "none" THEN key \notin DOMAIN ret.schema
    ELSE key \in DOMAIN ret.schema /\ ret.schema[key] = v

\* title, description, enum and default are written as resolved under role.
WritesCommonUnder(role) ==
    /\ Writes("title", maybe_resolve(fields[call.f].title, role))
    /\ Writes("description", maybe_resolve(fields[call.f].description, role))
    /\ Writes("enum", CallIfCallable(maybe_resolve(fields[call.f].enum, role)))
    /\ Writes("default", CallIfCallable(maybe_resolve(fields[call.f].default, role)))

\* C15: every schema-bearing field compiled under a role writes title,
\* description, enum and default exactly as they resolve under that role,
\* a callable enum or default replaced by what it returns.
C15_CommonFieldsUnderQueriedRole ==
    (CompiledOk /\ fields[call.f].cls # "DocumentField") => WritesCommonUnder(call.role)

\* What the code does instead: a composition field writes them as they
\* resolve under the default role, an array field whose items resolve to
\* nothing writes none of them, every other field writes them as claimed.
C15_CommonFieldsAsWritten ==
    (CompiledOk /\ fields[call.f].cls # "DocumentField") =>
        IF IsOfField(fields[call.f].cls) THEN WritesCommonUnder(DEFAULT_ROLE)
        ELSE IF fields[call.f].cls = "ArrayField"
                  /\ maybe_resolve(fields[call.f].items, call.role).t = "none"
        THEN {"title", "description", "enum", "default"} \cap DOMAIN ret.schema = {}
        ELSE WritesCommonUnder(call.role)

\* The children of the composition field of the call present under its
\* effective role, in declared order.
PresentChildren ==
    LET fs == maybe_resolve(fields[call.f].fields, call.role)
    IN IF fs.t # "list" THEN <<>>
       ELSE Pick(fs.l, 1, PresentAt(fs.l, EffectiveRole(fields[call.f].fields, call.role)))

\* C16: the list a composition field emits holds, in declared order, exactly
\* the schemas of its children present under their effective role, and is
\* empty when `fields` resolves to nothing or no child is present; a `not`
\* whose child is absent emits {'not': {}} and no definitions; the
\* definitions are those of the present children only.
C16_AbsentChildrenSkipped ==
    /\ (CompiledOk /\ IsOfField(fields[call.f].cls)) =>
          LET r == EffectiveRole(fields[call.f].fields, call.role)
              emitted == ret.schema[Keyword(fields[call.f].cls)].l
          IN /\ Len(emitted) = Len(PresentChildren)
             /\ \A i \in 1..Len(PresentChildren) :
                   emitted[i] = Obj(ChildCompiled(PresentChildren[i], r).schema)
             /\ DOMAIN ret.defs =
                   UNION {DOMAIN ChildCompiled(PresentChildren[i], r).defs :
                             i \in 1..Len(PresentChildren)}
    /\ (CompiledOk /\ fields[call.f].cls = "NotField") =>
          IF maybe_resolve(fields[call.f].field, call.role).t = "none"
          THEN ret.schema["not"] = Obj(EmptyMap) /\ ret.defs = EmptyMap
          ELSE /\ ret.schema["not"] =
                     Obj(ChildCompiled(fields[call.f].field, call.role).schema)
               /\ ret.defs = ChildCompiled(fields[call.f].field, call.role).defs

\* A oneOf whose first child, a DocumentField with as_ref, is present for
\* role_1 only, compiled under the default role: the only schema listed is
\* that of the second child, and there are no definitions.
C16_Witness ==
    /\ CompiledOk
    /\ call.role = DEFAULT_ROLE
    /\ call.f = 8
    /\ fields[8].fields = List(<<Var1(Lit("role_1"), Fld(5), {"role_1"}), Fld(2)>>)
    /\ fields[5].as_ref
    /\ ret = Ok2(EmptyMap, "oneOf" :> List(<<LeafSchema(Fld(2))>>))

\* The array field of the call has items that resolve to a list.
TupleTyped ==
    /\ call.op = "get_definitions_and_schema"
    /\ fields[call.f].cls = "ArrayField"
    /\ maybe_resolve(fields[call.f].items, call.role).t = "list"

\* The elements of that list present under the role r, in order.
PresentItems(r) ==
    Pick(maybe_resolve(fields[call.f].items, call.role).l, 1,
         PresentAt(maybe_resolve(fields[call.f].items, call.role).l, r))

\* `items` is the list of the schemas of the elements present under r.
EmitsItemsUnder(r) ==
    /\ ret.err = ""
    /\ "items" \in DOMAIN ret.schema
    /\ ret.schema["items"] =
          List([i \in 1..Len(PresentItems(r)) |->
                   Obj(ChildCompiled(PresentItems(r)[i], r).schema)])

\* C17: an ArrayField whose items resolve to a list emits as `items` the
\* schemas of the elements of the resolved list that are present, in order,
\* each resolved and compiled under the effective role that resolving
\* `items` gave; an absent element is skipped without an error.
C17_TupleItems ==
    TupleTyped => EmitsItemsUnder(EffectiveRole(fields[call.f].items, call.role))

\* What the code does instead: it iterates the attribute and not what the
\* attribute resolved to, which fails when the attribute is a Var, and it
\* compiles every element, which fails when an element is absent.
C17_TupleItemsAsCoded ==
    TupleTyped =>
        IF fields[call.f].items.t = "var" THEN ret.err = "TypeError"
        ELSE IF Len(PresentItems(call.role)) < Len(fields[call.f].items.l)
        THEN ret.err = "AttributeError"
        ELSE EmitsItemsUnder(call.role)

\* The array field of the call has items that resolve to nothing.
WithoutItems ==
    /\ fields[call.f].cls = "ArrayField"
    /\ maybe_resolve(fields[call.f].items, call.role).t = "none"

\* C18: a schema-bearing field with a non-empty id writes that id into its
\* schema under every role and passes the altered scope to its children;
\* an ArrayField whose items resolve to nothing still emits its type, its
\* id and its present title, description, enum and default, and no `items`.
C18_IdWritten ==
    (CompiledOk /\ fields[call.f].cls # "DocumentField") =>
        /\ Writes("id", IF fields[call.f].id = "" THEN NoneV ELSE Str(fields[call.f].id))
        /\ WithoutItems =>
              /\ ret.schema["type"] = Str("array")
              /\ "items" \notin DOMAIN ret.schema
              /\ WritesCommonUnder(call.role)

\* What the code does instead: an array field whose items resolve to nothing
\* emits its type and neither id nor items; every other field writes its id,
\* and a child with an id is given the scope altered by the id of its parent.
C18_IdAsWritten ==
    (CompiledOk /\ fields[call.f].cls # "DocumentField") =>
        /\ IF WithoutItems
           THEN /\ ret.schema["type"] = Str("array")
                /\ {"id", "items"} \cap DOMAIN ret.schema = {}
           ELSE Writes("id", IF fields[call.f].id = "" THEN NoneV
                             ELSE Str(fields[call.f].id))
        /\ (fields[call.f].cls = "DictField" /\ fields[call.f].properties.t = "dict"
              /\ fields[call.f].id # "") =>
              \A i \in PresentAt(ItemValues(fields[call.f].properties.items), call.role) :
                  LET child == fields[call.f].properties.items[i]
                      id == fields[maybe_resolve(child.v, call.role).id].id
                  IN id # "" =>
                        ret.schema["properties"].m[child.k].m["id"] =
                            Str(fields[call.f].id \o id)

\* The fields a walk yielded.
WalkedFields == {ret.out[i].f : i \in 1..Len(ret.out)}

\* A walk of a field of a tree without DocumentFields whose compilation
\* under the role of the walk succeeds.
WalkedWhereCompiled ==
    /\ call.op = "walk"
    /\ DocumentFieldIds = {}
    /\ get_definitions_and_schema(call.f, call.role, ResolutionScope, {}, 0).err = ""

\* C19: in a tree without DocumentFields, where compiling a field under a
\* role succeeds, walking it under that role succeeds and yields exactly the
\* field and the fields that the compilation compiles.
C19_WalkAgreesWithCompile ==
    WalkedWhereCompiled =>
        /\ ret.err = ""
        /\ WalkedFields = {call.f} \cup compiled_fields(call.f, call.role, 0)

====
